---- MODULE Spec2Model ----
(***************************************************************************)
(* Model of scripts/backup.py: the backup lifecycle manager of the         *)
(* Art Institut stack (create_backup, list_backups, prune_backups and the  *)
(* run / list commands).                                                   *)
(*                                                                         *)
(* Times are whole seconds since the epoch of the naive UTC datetimes the  *)
(* script works with; a reading of utcnow() carries its microseconds.      *)
(***************************************************************************)
EXTENDS Integers, Sequences, FiniteSets, TLC

VARIABLES
    store,        \* BACKUP_ROOT: the names present, each with its content
    clock,        \* the wall clock, whole seconds (UTC)
    tz,           \* UTC offset (seconds) of the host's local time zone
    pc,           \* where the command-line process is
    timestamp,    \* create_backup: the token read at line 147
    staging_dir,  \* create_backup: the scratch directory, {} when none
    staged,       \* create_backup: the capture steps attempted, in order
    calls,        \* number of create_backup calls made so far
    ticks,        \* number of clock advances so far
    backups,      \* cmd_run: what list_backups returned
    pnow,         \* prune_backups: its reading of utcnow()
    removed,      \* prune_backups: the paths it unlinked, in order
    before,       \* the store when the current command started
    result,       \* how the last create_backup ended
    verdict       \* cmd_check: the path it checked and how it ended

vars == << store, clock, tz, pc, timestamp, staging_dir, staged, calls, ticks,
           backups, pnow, removed, before, result, verdict >>

----------------------------------------------------------------------------
(* Bounds of the model *)

MaxCalls == 3
MaxTicks == 2
MaxArchives == 3

----------------------------------------------------------------------------
(* Durations, as datetime.timedelta builds them *)

minutes(n) == n * 60
hours(n) == n * 3600
days(n) == n * 86400

(* The instant the model's clock starts at, a multiple of every bucket
   width: day 60 after the epoch. *)
Start == days(60)

(* Clock advances the environment may make between any two steps. *)
Steps == { minutes(5), hours(3) }

(* Microsecond parts a reading of utcnow() may carry. *)
Micros == { 0, 500000 }

(* UTC offsets of the host's local time zone: UTC, and UTC+1. *)
LocalOffsets == { 0, hours(1) }

----------------------------------------------------------------------------
(* Names in BACKUP_ROOT.  A name is its prefix (up to the first "-" that the
   code looks for), the stamp text after it and the suffix; rand is the
   random part mkdtemp appends.  A stamp is the text of a timestamp: padded
   is the 16-character form strftime writes, unpadded a form with a
   one-digit month, day, hour, minute or second, garbage anything else. *)

BACKUP_PREFIX == "art-institut-backup"
STAGING_PREFIX == "staging"

Stamp(form, ts) == [form |-> form, ts |-> ts]

FileName(prefix, stamp, suffix, rand) ==
    [prefix |-> prefix, stamp |-> stamp, suffix |-> suffix, rand |-> rand]

(* A reading of the clock *)
utcnow(sec, usec) == [sec |-> sec, usec |-> usec]

(* strftime("%Y%m%dT%H%M%SZ"): zero-padded fields, microseconds dropped *)
timestamp_now(now) == Stamp("padded", now.sec)

(* datetime.strptime(stamp, "%Y%m%dT%H%M%SZ"): every numeric directive but %Y
   also accepts a single digit, so an unpadded stamp parses; anything else
   raises ValueError.  The result is the set holding the parsed second, or
   the empty set for a ValueError. *)
strptime(stamp) ==
    IF stamp.form \in {"padded", "unpadded"} THEN {stamp.ts} ELSE {}

(* parse_timestamp: None is the empty set *)
parse_timestamp(name) ==
    IF name.prefix # BACKUP_PREFIX THEN {} ELSE strptime(name.stamp)

(* BACKUP_ROOT.glob(f"{BACKUP_PREFIX}-*.tar.zst") *)
GlobMatch(name) == name.prefix = BACKUP_PREFIX /\ name.suffix = ".tar.zst"

(* backup_name / backup_path of create_backup *)
backup_path(token) == FileName(BACKUP_PREFIX, token, ".tar.zst", 0)

(* tempfile.mkdtemp(prefix="staging-<timestamp>-", dir=BACKUP_ROOT): a name
   no entry of the directory has; the call number stands for the random part *)
mkdtemp(token, n) == FileName(STAGING_PREFIX, token, "", n)

----------------------------------------------------------------------------
(* The store: a function from the names present to their content.  A file
   is complete or partial (opened for writing and not finished); by is the
   create_backup call that wrote it, 0 for a file that was put there by
   someone else.  meta holds the "files" list of the metadata.json inside a
   file that tar can read and that has one, and is empty for any other. *)

File(by, state) == [kind |-> "file", by |-> by, state |-> state, meta |-> {}]
Dir(by) == [kind |-> "dir", by |-> by, state |-> "complete", meta |-> {}]

(* A finished tar archive whose metadata.json lists the given files. *)
Packed(by, files) ==
    [kind |-> "file", by |-> by, state |-> "complete", meta |-> {files}]

Put(st, name, content) ==
    [n \in DOMAIN st \cup {name} |-> IF n = name THEN content ELSE st[n]]

Del(st, names) == [n \in DOMAIN st \ names |-> st[n]]

(* rmtree as it would be were the directory left behind *)
rmtree_skipped(st, dirs) == st

(* shutil.rmtree(staging_dir, ignore_errors=True) *)
rmtree(st, dirs) == Del(st, dirs)

----------------------------------------------------------------------------
(* Retention *)

(* RETENTION_RULES: (limit, interval) in seconds; a limit of None is the
   empty set. *)
RETENTION_RULES ==
    << [limit |-> {hours(2)},  interval |-> minutes(15)],
       [limit |-> {days(1)},   interval |-> minutes(30)],
       [limit |-> {days(14)},  interval |-> days(1)],
       [limit |-> {days(30)},  interval |-> days(5)],
       [limit |-> {},          interval |-> days(30)] >>

BackupFile(path, ts) == [path |-> path, timestamp |-> ts]

(* age <= limit, for age = now - timestamp: now carries microseconds, the
   timestamp and the limit are whole seconds. *)
age_le(now, ts, limit) ==
    \/ now.sec - ts < limit
    \/ now.sec - ts = limit /\ now.usec = 0

(* datetime.timestamp() of a naive datetime: the POSIX time of that wall
   clock reading taken as the host's LOCAL time. *)
posix_timestamp(ts, offset) == ts - offset

(* slot as it would be were the division rounded up *)
slot_rounded_up(ts, interval, offset) ==
    (posix_timestamp(ts, offset) + interval - 1) \div interval

(* slot(timestamp, interval) of prune_backups *)
slot(ts, interval, offset) == posix_timestamp(ts, offset) \div interval

(* The for/break over enumerate(RETENTION_RULES): the index of the first rule
   whose limit is None or not below the age, from idx on; 0 when the loop
   ends without a break. *)
RECURSIVE first_rule(_, _, _)
first_rule(now, ts, idx) ==
    IF idx > Len(RETENTION_RULES) THEN 0
    ELSE IF \/ RETENTION_RULES[idx].limit = {}
            \/ \E limit \in RETENTION_RULES[idx].limit : age_le(now, ts, limit)
         THEN idx
         ELSE first_rule(now, ts, idx + 1)

(* One pass of the first loop of prune_backups (lines 245-253). *)
keep_step(acc, backup, now, offset) ==
    LET idx == first_rule(now, backup.timestamp, 1)
        slot_key == << idx, slot(backup.timestamp,
                                 RETENTION_RULES[idx].interval, offset) >>
    IN  IF idx = 0 \/ slot_key \in acc.keep_slots THEN acc
        ELSE [keep_slots |-> acc.keep_slots \cup {slot_key},
              keep_paths |-> acc.keep_paths \cup {backup.path}]

(* The first loop, over the first n entries of the list. *)
RECURSIVE keep_loop(_, _, _, _)
keep_loop(bs, n, now, offset) ==
    IF n = 0 THEN [keep_slots |-> {}, keep_paths |-> {}]
    ELSE keep_step(keep_loop(bs, n - 1, now, offset), bs[n], now, offset)

keep_paths(bs, now, offset) == keep_loop(bs, Len(bs), now, offset).keep_paths

(* The second loop (lines 255-260): the paths unlinked, in list order. *)
removed_paths(bs, now, offset) ==
    LET keep == keep_paths(bs, now, offset)
        lost == SelectSeq(bs, LAMBDA b : b.path \notin keep)
    IN  [i \in 1..Len(lost) |-> lost[i].path]

Range(seq) == { seq[i] : i \in 1..Len(seq) }

(* path.unlink(missing_ok=True) for each removed path *)
unlink_all(st, paths) == Del(st, Range(paths))

----------------------------------------------------------------------------
(* Enumeration of the store *)

(* The BackupFile entries list_backups collects (lines 198-201). *)
collected(st) ==
    UNION { { BackupFile(n, ts) : ts \in parse_timestamp(n) } :
            n \in { m \in DOMAIN st : GlobMatch(m) } }

(* The sort as it would be without reverse=True *)
RECURSIVE sorted_oldest_first(_)
sorted_oldest_first(S) ==
    IF S = {} THEN { << >> }
    ELSE UNION { { << b >> \o rest : rest \in sorted_oldest_first(S \ {b}) } :
                 b \in { x \in S : \A y \in S : x.timestamp <= y.timestamp } }

(* sort(key=timestamp, reverse=True) is stable: entries of equal timestamp
   stay in the order glob produced them, which is the directory's order and
   can be any.  The lists the sort may produce from the set S. *)
RECURSIVE sorted_newest_first(_)
sorted_newest_first(S) ==
    IF S = {} THEN { << >> }
    ELSE UNION { { << b >> \o rest : rest \in sorted_newest_first(S \ {b}) } :
                 b \in { x \in S : \A y \in S : x.timestamp >= y.timestamp } }

list_backups(st) == sorted_newest_first(collected(st))

----------------------------------------------------------------------------
(* Capture *)

(* The capture adapters with the master key captured before the volumes. *)
ADAPTERS_secrets_first ==
    << "databases/kimai.sql", "databases/nextcloud.sql",
       "files_encryption.tar.gz",
       "volumes/kimai_db_data.tar.gz", "volumes/kimai_public.tar.gz",
       "volumes/kimai_var.tar.gz", "volumes/nextcloud_data.tar.gz",
       "volumes/nextcloud_db_data.tar.gz", "volumes/redis_data.tar.gz",
       "repo.tar.zst" >>

(* The capture adapters in the order create_backup calls them (lines
   153-165), each named by the file it writes under the staging directory;
   the volumes are in the order of the VOLUMES dict. *)
ADAPTERS ==
    << "databases/kimai.sql", "databases/nextcloud.sql",
       "volumes/kimai_db_data.tar.gz", "volumes/kimai_public.tar.gz",
       "volumes/kimai_var.tar.gz", "volumes/nextcloud_data.tar.gz",
       "volumes/nextcloud_db_data.tar.gz", "volumes/redis_data.tar.gz",
       "files_encryption.tar.gz", "repo.tar.zst" >>

(* The "files" entry of metadata.json (line 171): every path under the
   staging directory when it is written, the two directories and the file
   each capture attempted so far has opened. *)
metadata_files(attempts) ==
    {"databases", "volumes"} \cup { attempts[i].item : i \in 1..Len(attempts) }

(* How a wait for an external command may end: exit status 0, a non-zero
   exit status, or -2: the command killed by SIGINT, which raises
   KeyboardInterrupt in the script as well. *)
ExitCodes == { 0, 1, -2 }

(* _run as it would be with check=False: only KeyboardInterrupt raises *)
_run_unchecked(rc) == IF rc = -2 THEN "raise" ELSE "ok"

(* _run: subprocess.run with check=True raises CalledProcessError on a
   non-zero exit status; KeyboardInterrupt propagates by itself. *)
_run(rc) == IF rc = 0 THEN "ok" ELSE "raise"

----------------------------------------------------------------------------
(* What may lie in BACKUP_ROOT besides the script's own archives: a file
   with another prefix, a directory, an archive name with an unparseable
   stamp, an archive name with another extension, and an archive name whose
   stamp is not zero-padded. *)
Strangers ==
    { FileName("notes", Stamp("garbage", 0), ".txt", 0),
      FileName(BACKUP_PREFIX, Stamp("garbage", 0), ".tar.zst", 0),
      FileName(BACKUP_PREFIX, Stamp("padded", Start), ".tar.gz", 0) }

StrangerDirs == { FileName("old", Stamp("garbage", 0), "", 0) }

Unpadded == { FileName(BACKUP_PREFIX, Stamp("unpadded", Start), ".tar.zst", 0) }

StoreOf(files, dirs) ==
    [n \in files \cup dirs |-> IF n \in dirs THEN Dir(0) ELSE File(0, "complete")]

NoTime == utcnow(0, 0)

(* What cmd_check leaves: the path it went for (none when there was no
   backup to check), how check_backup ended, the items it reported missing
   and the exit status of the process. *)
Verdict(path, outcome, missing, status) ==
    [path |-> path, outcome |-> outcome, missing |-> missing, status |-> status]

NoVerdict == Verdict({}, "none", {}, 0)

Init ==
    /\ \E extra \in SUBSET Unpadded :
           store = StoreOf(Strangers \cup extra, StrangerDirs)
    /\ clock = Start
    /\ tz \in LocalOffsets
    /\ pc = "idle"
    /\ timestamp = Stamp("garbage", 0)
    /\ staging_dir = {}
    /\ staged = << >>
    /\ calls = 0
    /\ ticks = 0
    /\ backups = << >>
    /\ pnow = NoTime
    /\ removed = << >>
    /\ before = store
    /\ result = "none"
    /\ verdict = NoVerdict

(* The process is between two commands. *)
AtPrompt ==
    pc \in {"idle", "done", "raised", "listed", "verified", "check_failed"}

(* The clock advances. *)
Tick ==
    /\ ticks < MaxTicks
    /\ \E d \in Steps : clock' = clock + d
    /\ ticks' = ticks + 1
    /\ UNCHANGED << store, tz, pc, timestamp, staging_dir, staged, calls,
                    backups, pnow, removed, before, result, verdict >>

(* cmd_run calls create_backup: ensure_dirs, the timestamp token and the
   scratch directory (lines 146-148). *)
CreateBegin ==
    /\ AtPrompt
    /\ calls < MaxCalls
    /\ calls' = calls + 1
    /\ \E usec \in Micros : timestamp' = timestamp_now(utcnow(clock, usec))
    /\ staging_dir' = { mkdtemp(timestamp', calls') }
    /\ store' = Put(store, mkdtemp(timestamp', calls'), Dir(calls'))
    /\ staged' = << >>
    /\ before' = store
    /\ result' = "running"
    /\ backups' = << >>
    /\ removed' = << >>
    /\ pnow' = NoTime
    /\ verdict' = NoVerdict
    /\ pc' = "capture"
    /\ UNCHANGED << clock, tz, ticks >>

(* One capture adapter runs to its end (lines 151-165): the next one of
   ADAPTERS, with the exit status the external command ends with. *)
Capture ==
    /\ pc = "capture"
    /\ Len(staged) < Len(ADAPTERS)
    /\ \E rc \in ExitCodes :
         /\ staged' = Append(staged, [item |-> ADAPTERS[Len(staged) + 1],
                                      rc |-> rc])
         /\ IF _run(rc) = "raise"
            THEN pc' = "finally" /\ result' = "capture_failed"
            ELSE /\ pc' = IF Len(staged') = Len(ADAPTERS) THEN "manifest"
                                                          ELSE "capture"
                 /\ result' = result
    /\ UNCHANGED << store, clock, tz, timestamp, staging_dir, calls, ticks,
                    backups, pnow, removed, before, verdict >>

(* metadata.json is written into the staging directory (lines 167-173);
   the write may raise OSError. *)
Manifest ==
    /\ pc = "manifest"
    /\ \E ok \in BOOLEAN :
         IF ok THEN pc' = "package" /\ result' = result
               ELSE pc' = "finally" /\ result' = "manifest_failed"
    /\ UNCHANGED << store, clock, tz, timestamp, staging_dir, staged, calls,
                    ticks, backups, pnow, removed, before, verdict >>

(* tar --zstd -cf backup_path starts (line 177): it creates, or truncates,
   the file at backup_path and begins to write it; or it cannot open the
   file and exits non-zero at once. *)
PackageOpen ==
    /\ pc = "package"
    /\ \E opened \in BOOLEAN :
         IF opened
         THEN /\ store' = Put(store, backup_path(timestamp),
                              File(calls, "partial"))
              /\ pc' = "packaging"
              /\ result' = result
         ELSE /\ store' = store
              /\ pc' = "finally"
              /\ result' = "package_failed"
    /\ UNCHANGED << clock, tz, timestamp, staging_dir, staged, calls, ticks,
                    backups, pnow, removed, before, verdict >>

(* tar ends: with status 0 the archive is complete; otherwise _run raises
   and the file stays as far as it was written. *)
PackageEnd ==
    /\ pc = "packaging"
    /\ \E rc \in ExitCodes :
         IF _run(rc) = "raise"
         THEN /\ store' = store
              /\ pc' = "finally"
              /\ result' = "package_failed"
         ELSE /\ store' = Put(store, backup_path(timestamp),
                              Packed(calls, metadata_files(staged)))
              /\ pc' = "finally"
              /\ result' = "ok"
    /\ UNCHANGED << clock, tz, timestamp, staging_dir, staged, calls, ticks,
                    backups, pnow, removed, before, verdict >>

(* The finally clause (lines 179-180), then the return of backup_path or
   the exception leaving create_backup and cmd_run. *)
Finally ==
    /\ pc = "finally"
    /\ store' = rmtree(store, staging_dir)
    /\ staging_dir' = {}
    /\ pc' = IF result = "ok" THEN "created" ELSE "raised"
    /\ UNCHANGED << clock, tz, timestamp, staged, calls, ticks, backups,
                    pnow, removed, before, result, verdict >>

(* cmd_run, line 279: backups = list_backups() *)
RunList ==
    /\ pc = "created"
    /\ backups' \in list_backups(store)
    /\ pc' = "prune"
    /\ UNCHANGED << store, clock, tz, timestamp, staging_dir, staged, calls,
                    ticks, pnow, removed, before, result, verdict >>

(* cmd_run, line 280: removed = prune_backups(backups) *)
RunPrune ==
    /\ pc = "prune"
    /\ \E usec \in Micros : pnow' = utcnow(clock, usec)
    /\ removed' = removed_paths(backups, pnow', tz)
    /\ store' = unlink_all(store, removed')
    /\ pc' = "done"
    /\ UNCHANGED << clock, tz, timestamp, staging_dir, staged, calls, ticks,
                    backups, before, result, verdict >>

(* cmd_list: enumerates the store and prints it; nothing is written. The
   command is a new process: what the last one held in its locals is gone. *)
CmdList ==
    /\ AtPrompt
    /\ pc # "listed"
    /\ backups' \in list_backups(store)
    /\ before' = store
    /\ removed' = << >>
    /\ pnow' = NoTime
    /\ verdict' = NoVerdict
    /\ timestamp' = Stamp("garbage", 0)
    /\ staged' = << >>
    /\ result' = "none"
    /\ pc' = "listed"
    /\ UNCHANGED << store, clock, tz, staging_dir, calls, ticks >>

----------------------------------------------------------------------------
(* Verification *)

(* required of check_backup (line 271) *)
required ==
    { "databases/kimai.sql", "databases/nextcloud.sql", "files_encryption.tar.gz" }

(* missing as it would be were the secrets item left out of required *)
missing_databases_only(files) ==
    { item \in required \ {"files_encryption.tar.gz"} : item \notin files }

(* missing of check_backup (line 272), as a set: the list follows the
   iteration order of the set `required`. *)
missing_items(files) == { item \in required : item \notin files }

(* tar -tf and tar -xf ./metadata.json both end with status 0 on this
   content: a finished tar file that holds a metadata.json. *)
Readable(content) ==
    content.kind = "file" /\ content.state = "complete" /\ content.meta # {}

(* check_backup (lines 263-274), as the verdict it ends with: SystemExit
   with a message and an uncaught CalledProcessError both end the process
   with status 1. *)
check_backup(st, path) ==
    IF path \notin DOMAIN st
    THEN Verdict({path}, "does_not_exist", {}, 1)
    ELSE IF _run(IF Readable(st[path]) THEN 0 ELSE 1) = "raise"
    THEN Verdict({path}, "tar_failed", {}, 1)
    ELSE LET files == UNION st[path].meta
             missing == missing_items(files)
         IN  IF missing # {}
             THEN Verdict({path}, "missing_items", missing, 1)
             ELSE Verdict({path}, "verified", {}, 0)

(* A path that names nothing in the store. *)
AbsentPath == backup_path(Stamp("padded", 0))

(* The FILE arguments the check command is given: none, or one of these:
   what the store holds under an archive name, and a path it does not hold. *)
CheckPaths(st) == { n \in DOMAIN st : GlobMatch(n) } \cup {AbsentPath}

(* cmd_check (lines 319-328): the named file, or the newest listed one.
   The command is a new process, as cmd_list is. *)
CmdCheck ==
    /\ AtPrompt
    /\ \/ \E path \in CheckPaths(store) : verdict' = check_backup(store, path)
       \/ \E bs \in list_backups(store) :
              verdict' = IF bs = << >>
                         THEN Verdict({}, "no_backups", {}, 1)
                         ELSE check_backup(store, bs[1].path)
    /\ pc' = IF verdict'.outcome = "verified" THEN "verified" ELSE "check_failed"
    /\ before' = store
    /\ backups' = << >>
    /\ removed' = << >>
    /\ pnow' = NoTime
    /\ timestamp' = Stamp("garbage", 0)
    /\ staged' = << >>
    /\ result' = "none"
    /\ UNCHANGED << store, clock, tz, staging_dir, calls, ticks >>

Next ==
    \/ Tick
    \/ CreateBegin
    \/ Capture
    \/ Manifest
    \/ PackageOpen
    \/ PackageEnd
    \/ Finally
    \/ RunList
    \/ RunPrune
    \/ CmdList
    \/ CmdCheck

Spec == Init /\ [][Next]_vars

----------------------------------------------------------------------------
(* The retention step on its own: cmd_run at line 279, create_backup having
   returned, over stores and clock readings drawn from bounded sets. *)

(* Ages of the archives of a drawn store: in every tier, on the 2 h limit,
   pairs that share a bucket, a pair on both sides of a UTC midnight, and
   one stamped after now. *)
AgePool ==
    { 0 - minutes(5), minutes(10), minutes(12), minutes(20), minutes(110),
      hours(2), hours(5), hours(5) + minutes(10),
      days(2) - minutes(15), days(2) + minutes(30), days(3),
      days(20), days(22), days(40), days(45), days(100) }

(* The clock readings of the drawn stores, and those of the two scenarios:
   every second of two 15-minute buckets. *)
DrawnNows == { Start, Start + minutes(7) }
ScenarioNows == Start .. (Start + minutes(30) - 1)

ScenarioA == { minutes(10), minutes(20), minutes(110) }
ScenarioB == { minutes(10), minutes(12) }

ArchivesAged(now, ages) ==
    { backup_path(Stamp("padded", now - a)) : a \in ages }

(* An archive name with an unpadded stamp, of the age of a drawn one. *)
UnpaddedAged(now) ==
    { FileName(BACKUP_PREFIX, Stamp("unpadded", now - minutes(10)),
               ".tar.zst", 0) }

InitPrune ==
    /\ \/ /\ clock \in DrawnNows
          /\ \E ages \in SUBSET AgePool, extra \in SUBSET UnpaddedAged(clock) :
               /\ Cardinality(ages) <= MaxArchives
               /\ store = StoreOf(Strangers \cup ArchivesAged(clock, ages)
                                  \cup extra, StrangerDirs)
       \/ /\ clock \in ScenarioNows
          /\ \E ages \in {ScenarioA, ScenarioB} :
               store = StoreOf(ArchivesAged(clock, ages), {})
    /\ tz \in LocalOffsets
    /\ pc = "created"
    /\ timestamp = Stamp("garbage", 0)
    /\ staging_dir = {}
    /\ staged = << >>
    /\ calls = 0
    /\ ticks = 0
    /\ backups = << >>
    /\ pnow = NoTime
    /\ removed = << >>
    /\ before = store
    /\ result = "ok"
    /\ verdict = NoVerdict

NextPrune ==
    \/ RunList
    \/ RunPrune

SpecPrune == InitPrune /\ [][NextPrune]_vars

----------------------------------------------------------------------------
(* The read-only commands on their own, over stores whose archives carry
   manifests drawn from a bounded set. *)

(* The attempts of a create_backup whose adapters all succeeded. *)
AllStaged == [i \in 1..Len(ADAPTERS) |-> [item |-> ADAPTERS[i], rc |-> 0]]

(* The "files" lists of the drawn archives: the list create_backup writes,
   less any of the items check_backup looks for, and the empty list. *)
ManifestPool ==
    { metadata_files(AllStaged) \ omitted : omitted \in SUBSET required }
        \cup { {} }

(* The contents of the drawn archives: packed with one of the manifests, a
   tar file without metadata.json, and a file cut short. *)
ContentPool ==
    { Packed(0, files) : files \in ManifestPool }
        \cup { File(0, "complete"), File(0, "partial") }

(* The names of the drawn archives: a newer and an older one. *)
CheckNames == ArchivesAged(Start, { minutes(10), days(3) })

InitCheck ==
    /\ \E names \in SUBSET CheckNames :
         \E contents \in [names -> ContentPool] :
            store = [n \in names \cup StrangerDirs |->
                        IF n \in names THEN contents[n] ELSE Dir(0)]
    /\ clock = Start
    /\ tz \in LocalOffsets
    /\ pc = "idle"
    /\ timestamp = Stamp("garbage", 0)
    /\ staging_dir = {}
    /\ staged = << >>
    /\ calls = 0
    /\ ticks = 0
    /\ backups = << >>
    /\ pnow = NoTime
    /\ removed = << >>
    /\ before = store
    /\ result = "none"
    /\ verdict = NoVerdict

NextCheck ==
    \/ CmdCheck
    \/ CmdList

SpecCheck == InitCheck /\ [][NextCheck]_vars

----------------------------------------------------------------------------
(* Run cycles around the end of a 30-day window: the store starts empty half
   an hour before the clock reaches a multiple of 30 days, and the clock
   advances between the commands by three quarters of an hour or two days. *)

CycleSteps == { minutes(45), days(2) }

InitCycles ==
    /\ store = StoreOf({}, {})
    /\ clock = Start - minutes(30)
    /\ tz \in LocalOffsets
    /\ pc = "idle"
    /\ timestamp = Stamp("garbage", 0)
    /\ staging_dir = {}
    /\ staged = << >>
    /\ calls = 0
    /\ ticks = 0
    /\ backups = << >>
    /\ pnow = NoTime
    /\ removed = << >>
    /\ before = store
    /\ result = "none"
    /\ verdict = NoVerdict

(* The clock advances between two run cycles. *)
TickCycle ==
    /\ ticks < MaxTicks
    /\ \E d \in CycleSteps : clock' = clock + d
    /\ ticks' = ticks + 1
    /\ UNCHANGED << store, tz, pc, timestamp, staging_dir, staged, calls,
                    backups, pnow, removed, before, result, verdict >>

NextCycles ==
    \/ TickCycle
    \/ CreateBegin
    \/ Capture
    \/ Manifest
    \/ PackageOpen
    \/ PackageEnd
    \/ Finally
    \/ RunList
    \/ RunPrune

SpecCycles == InitCycles /\ [][NextCycles]_vars

----------------------------------------------------------------------------
(* Vocabulary of the properties *)

(* The name follows art-institut-backup-<YYYYMMDDTHHMMSSZ>.tar.zst. *)
PatternMatch(name) ==
    /\ name.prefix = BACKUP_PREFIX
    /\ name.stamp.form = "padded"
    /\ name.suffix = ".tar.zst"

(* The entries of the list prune_backups was given. *)
Listed == Range(backups)

(* prune_backups has returned. *)
Pruned == pc = "done"

(* The entry was kept by the prune that has just returned. *)
Kept(b) == b.path \notin Range(removed) /\ b.path \in DOMAIN store

(* The tier of an entry at the prune's reading of the clock: the first tier
   whose age limit is absent or not below the entry's age. *)
TierOf(b) == first_rule(pnow, b.timestamp, 1)

(* floor(timestamp / bucketWidth) in the entry's tier *)
BucketOf(b) == b.timestamp \div RETENTION_RULES[TierOf(b)].interval

(* The entries mapped to the same (tier, bucket) pair as b. *)
PairOf(b) == { c \in Listed : TierOf(c) = TierOf(b) /\ BucketOf(c) = BucketOf(b) }

(* The listed entry of the given age, at the prune's reading of the clock. *)
Aged(a) == BackupFile(backup_path(Stamp("padded", pnow.sec - a)), pnow.sec - a)

(* The list is exactly the archives of the given ages. *)
ListIsAged(ages) ==
    /\ Len(backups) = Cardinality(ages)
    /\ Listed = { Aged(a) : a \in ages }

----------------------------------------------------------------------------
(* C1: after prune_backups, every (tier, floor(timestamp / bucketWidth))
   pair that has an archive keeps exactly one archive, one with the latest
   timestamp of the pair, and loses every other. *)
C1_BucketSurvivor ==
    Pruned =>
        \A b \in Listed :
            /\ TierOf(b) \in 1..Len(RETENTION_RULES)
            /\ Cardinality({ c \in PairOf(b) : Kept(c) }) = 1
            /\ \A c \in PairOf(b) :
                   Kept(c) => \A d \in PairOf(b) : c.timestamp >= d.timestamp

(* C1 as the code has it on a host whose local time is UTC. *)
C1_OnUtcHost == tz = 0 => C1_BucketSurvivor

----------------------------------------------------------------------------
(* C7 as stated: for every now, the archives aged 10 min, 20 min and
   1 h 50 min are in the first tier, in three distinct 15-minute buckets,
   and all three are kept. *)
C7_ScenarioA_AllKept ==
    (Pruned /\ ListIsAged(ScenarioA)) =>
        /\ \A a \in ScenarioA : TierOf(Aged(a)) = 1
        /\ \A a1, a2 \in ScenarioA :
               a1 # a2 => BucketOf(Aged(a1)) # BucketOf(Aged(a2))
        /\ \A a \in ScenarioA : Kept(Aged(a))

(* C7 amended: the three archives are in the first tier; the 10-minute-old
   and the 1 h 50 min old one are kept; the 20-minute-old one is kept
   exactly when (now - 10 min) mod 15 min < 10 min, and removed otherwise. *)
C7_ScenarioA_Amended ==
    (Pruned /\ ListIsAged(ScenarioA)) =>
        /\ \A a \in ScenarioA : TierOf(Aged(a)) = 1
        /\ Kept(Aged(minutes(10)))
        /\ Kept(Aged(minutes(110)))
        /\ Kept(Aged(minutes(20)))
               <=> (pnow.sec - minutes(10)) % minutes(15) < minutes(10)

(* Scenario A pruned at a reading where the 20-minute-old archive shares
   the bucket of the 10-minute-old one and is removed. *)
C7_Witness ==
    /\ Pruned
    /\ ListIsAged(ScenarioA)
    /\ ~ Kept(Aged(minutes(20)))
    /\ Kept(Aged(minutes(10)))

----------------------------------------------------------------------------
(* C8 as stated: for every now, the archives aged 10 min and 12 min are in
   the same 15-minute bucket of the first tier; the 10-minute-old one is
   kept and the 12-minute-old one removed. *)
C8_ScenarioB_OlderRemoved ==
    (Pruned /\ ListIsAged(ScenarioB)) =>
        /\ \A a \in ScenarioB : TierOf(Aged(a)) = 1
        /\ BucketOf(Aged(minutes(10))) = BucketOf(Aged(minutes(12)))
        /\ Kept(Aged(minutes(10)))
        /\ ~ Kept(Aged(minutes(12)))

(* C8 amended: both archives are in the first tier and the 10-minute-old
   one is kept; the 12-minute-old one is removed exactly when
   (now - 10 min) mod 15 min >= 2 min, and kept otherwise. *)
C8_ScenarioB_Amended ==
    (Pruned /\ ListIsAged(ScenarioB)) =>
        /\ \A a \in ScenarioB : TierOf(Aged(a)) = 1
        /\ Kept(Aged(minutes(10)))
        /\ ~ Kept(Aged(minutes(12)))
               <=> (pnow.sec - minutes(10)) % minutes(15) >= minutes(2)

(* Scenario B pruned at a reading where both archives share a bucket and
   the 12-minute-old one is removed. *)
C8_Witness ==
    /\ Pruned
    /\ ListIsAged(ScenarioB)
    /\ ~ Kept(Aged(minutes(12)))
    /\ Kept(Aged(minutes(10)))

----------------------------------------------------------------------------
(* Vocabulary of the properties of create_backup and cmd_run *)

(* The names of a store that the archive enumeration goes by. *)
ArchiveNames(st) == { n \in DOMAIN st : GlobMatch(n) }

(* Those of them that are files written to their end. *)
CompleteArchives(st) ==
    { n \in ArchiveNames(st) : st[n].kind = "file" /\ st[n].state = "complete" }

(* The scratch directories of a store. *)
ScratchDirs(st) == { n \in DOMAIN st : n.prefix = STAGING_PREFIX }

(* create_backup is running: between its line 148 and its return. *)
InCreate == pc \in {"capture", "manifest", "package", "packaging", "finally"}

(* create_backup has returned control to cmd_run: with the path, or with an
   exception. *)
Returned == pc \in {"created", "raised"}

(* A capture adapter of the call in progress or last made has failed. *)
AdapterFailed == \E i \in 1..Len(staged) : staged[i].rc # 0

(* That call has reached the packaging step. *)
Packaged == result \in {"ok", "package_failed"}

----------------------------------------------------------------------------
(* C2: no file named as an archive is in the store unless its packaging has
   completed. *)
C2_NoPartialArchive ==
    \A n \in DOMAIN store : PatternMatch(n) => store[n].state = "complete"

----------------------------------------------------------------------------
(* C3: when create_backup has finished and one of its capture adapters
   failed, the archive names in the store are those from before the call. *)
C3_FailedCaptureAddsNothing ==
    (Returned /\ AdapterFailed) => ArchiveNames(store) = ArchiveNames(before)

(* create_backup has ended in an exception after an adapter exited
   non-zero, later than the first adapter. *)
C3_Witness ==
    /\ pc = "raised"
    /\ result = "capture_failed"
    /\ Len(staged) > 1
    /\ staged[Len(staged)].rc = 1

----------------------------------------------------------------------------
----------------------------------------------------------------------------
(* C5: when create_backup fails in cmd_run, prune_backups is not invoked
   and every archive that was in the store before the run is still there
   with the content it had, if it was complete. *)
C5_FailedRunLeavesStore ==
    pc = "raised" =>
        /\ removed = << >>
        /\ pnow = NoTime
        /\ \A n \in CompleteArchives(before) :
               n \in DOMAIN store /\ store[n] = before[n]

----------------------------------------------------------------------------
(* C6: a successful create_backup has added exactly one archive and has
   left every complete archive that existed, with the content it had. *)
C6_OneNewArchive ==
    pc = "created" =>
        /\ Cardinality(CompleteArchives(store) \ CompleteArchives(before)) = 1
        /\ \A n \in CompleteArchives(before) :
               n \in DOMAIN store /\ store[n] = before[n]

----------------------------------------------------------------------------
(* C9: list_backups returns exactly the files named
   art-institut-backup-<YYYYMMDDTHHMMSSZ>.tar.zst, newest first, and
   prune_backups removes no other name. *)
C9_OnlyPatternNames ==
    /\ pc \in {"prune", "listed"} =>
           /\ { b.path : b \in Listed } = { n \in DOMAIN store : PatternMatch(n) }
           /\ \A i, j \in 1..Len(backups) :
                  i < j => backups[i].timestamp >= backups[j].timestamp
    /\ \A b \in Listed : PatternMatch(b.path)
    /\ \A i \in 1..Len(removed) : PatternMatch(removed[i])
    /\ \A n \in DOMAIN before :
           (~ PatternMatch(n) /\ n.prefix # STAGING_PREFIX) => n \in DOMAIN store

----------------------------------------------------------------------------
(* C10: prune_backups keeps the archive with the newest timestamp, so it
   keeps something whenever it is given something; and the archive a run has
   created is in the store when the run ends, if no listed archive has a
   later timestamp. *)
C10_NewestKept ==
    Pruned =>
        /\ \A b \in Listed :
               (\A c \in Listed : b.timestamp >= c.timestamp) => Kept(b)
        /\ backups # << >> => \E b \in Listed : Kept(b)
        /\ (calls > 0 /\ \A c \in Listed : c.timestamp <= timestamp.ts)
               => backup_path(timestamp) \in DOMAIN store

(* C10 for the lists in which no two entries have the same timestamp. *)
C10_WithoutTies ==
    (\A i, j \in 1..Len(backups) :
         i # j => backups[i].timestamp # backups[j].timestamp)
        => C10_NewestKept

----------------------------------------------------------------------------
(* Vocabulary of the properties of cmd_check *)

(* The check command has ended. *)
Checked == pc \in {"verified", "check_failed"}

(* The archive the check went for, as it was when the command began: it
   existed and was a readable archive with a manifest. *)
CheckedReadable ==
    /\ Checked
    /\ verdict.path # {}
    /\ \A p \in verdict.path : p \in DOMAIN before /\ Readable(before[p])

(* The "files" list of the manifest of that archive. *)
ManifestFiles ==
    UNION { before[p].meta : p \in verdict.path \cap DOMAIN before }

(* The three required items of an archive. *)
RequiredItems ==
    { "databases/kimai.sql", "databases/nextcloud.sql", "files_encryption.tar.gz" }

(* C11: a check of an existing readable archive ends in failure, with a
   non-zero exit status and a report of exactly the required items its
   manifest omits, when it omits any; it ends in success when the manifest
   lists all three; the store is as it was in both outcomes. *)
C11_CheckReportsOmitted ==
    CheckedReadable =>
        \A files \in ManifestFiles :
            /\ store = before
            /\ RequiredItems \ files # {} =>
                   /\ pc = "check_failed"
                   /\ verdict.status # 0
                   /\ verdict.missing = RequiredItems \ files
            /\ RequiredItems \ files = {} =>
                   /\ pc = "verified"
                   /\ verdict.status = 0
                   /\ verdict.missing = {}

(* A check of a readable archive whose manifest lists the two database
   dumps but not the secrets item has failed and reports that item. *)
C11_Witness ==
    /\ CheckedReadable
    /\ \E files \in ManifestFiles :
           RequiredItems \ files = {"files_encryption.tar.gz"}
    /\ pc = "check_failed"
    /\ verdict.missing = {"files_encryption.tar.gz"}

----------------------------------------------------------------------------
(* Vocabulary of the properties of a repeated retention decision *)

(* The keep/remove partition prune_backups computes for a list at the
   reading of the clock of the prune that has returned: the paths removed
   (the kept ones are the rest of the list). *)
RemovedOf(bs) == Range(removed_paths(bs, pnow, tz))

(* Two listed entries carry the same timestamp. *)
ListHasTies ==
    \E b, c \in Listed : b # c /\ b.timestamp = c.timestamp

(* C12: with the same now, every computation of the retention decision on
   the archive set that was listed yields the keep/remove partition of the
   prune that has returned, and pruning the archives that prune kept
   removes nothing further. *)
C12_SamePartitionAndIdempotent ==
    Pruned =>
        /\ \A bs \in sorted_newest_first(Listed) : RemovedOf(bs) = Range(removed)
        /\ \A bs \in list_backups(store) : RemovedOf(bs) = {}

(* The second half of C12 on its own. *)
C12_Idempotent ==
    Pruned => \A bs \in list_backups(store) : RemovedOf(bs) = {}

(* C12 for archive sets in which no two timestamps are equal. *)
C12_WithoutTies == ListHasTies \/ C12_SamePartitionAndIdempotent

(* A prune that removed an archive, over a list without ties. *)
C12_PrunedSome == Pruned /\ removed # << >> /\ ~ ListHasTies

----------------------------------------------------------------------------
(* Vocabulary of the properties of the capture sequence *)

(* What the volume adapter writes, one file for each volume. *)
VolumeItems ==
    { "volumes/kimai_db_data.tar.gz", "volumes/kimai_public.tar.gz",
      "volumes/kimai_var.tar.gz", "volumes/nextcloud_data.tar.gz",
      "volumes/nextcloud_db_data.tar.gz", "volumes/redis_data.tar.gz" }

(* The place of an adapter in the fixed order: the kimai database, the
   nextcloud database, the volumes, the master key directory, the
   configuration tree. *)
StageOf(item) ==
    CASE item = "databases/kimai.sql" -> 1
      [] item = "databases/nextcloud.sql" -> 2
      [] item \in VolumeItems -> 3
      [] item = "files_encryption.tar.gz" -> 4
      [] item = "repo.tar.zst" -> 5
      [] OTHER -> 0

AllItems ==
    { "databases/kimai.sql", "databases/nextcloud.sql",
      "files_encryption.tar.gz", "repo.tar.zst" } \cup VolumeItems

(* The adapters started so far by the call in progress or last made. *)
Started == 1..Len(staged)

(* The manifest write or the packaging step of that call has been reached. *)
ManifestOrPackagingReached ==
    \/ pc \in {"manifest", "package", "packaging"}
    \/ result \in {"manifest_failed", "package_failed", "ok"}

(* C13: the adapters of a create_backup start one after the other in the
   order kimai database, nextcloud database, every volume, master key
   directory, configuration tree, none twice and none before every adapter
   of an earlier place has run; an adapter starts only when every earlier one
   has ended with status 0, so none starts after a failure; and the manifest
   write and the packaging step are reached only after all adapters have
   ended with status 0. *)
C13_AdaptersInFixedOrder ==
    /\ \A j \in Started : StageOf(staged[j].item) \in 1..5
    /\ \A i, j \in Started :
           i < j => /\ StageOf(staged[i].item) <= StageOf(staged[j].item)
                    /\ staged[i].item # staged[j].item
                    /\ staged[i].rc = 0
    /\ \A j \in Started : \A item \in AllItems :
           StageOf(item) < StageOf(staged[j].item) =>
               \E i \in 1..(j - 1) : staged[i].item = item
    /\ ManifestOrPackagingReached =>
           /\ { staged[i].item : i \in Started } = AllItems
           /\ \A i \in Started : staged[i].rc = 0
    /\ AdapterFailed => pc \notin {"capture", "manifest", "package", "packaging"}

(* A create_backup has raised after the third volume adapter failed: the
   five adapters before it had succeeded and none was started after it. *)
C13_Witness ==
    /\ pc = "raised"
    /\ result = "capture_failed"
    /\ Len(staged) = 5
    /\ staged[5].item = "volumes/kimai_var.tar.gz"
    /\ staged[5].rc # 0

----------------------------------------------------------------------------
(* Vocabulary of the properties of the 30-day windows *)

(* The epoch-aligned 30-day window of an entry: floor(timestamp / 30d). *)
WindowOf(b) == b.timestamp \div days(30)

(* C14: a prune never empties a 30-day window: every window that had an
   archive in the list the prune was given has an archive the prune kept,
   in every run cycle and however the clock has advanced between them. *)
C14_WindowNeverEmptied ==
    Pruned =>
        \A b \in Listed : \E c \in Listed : Kept(c) /\ WindowOf(c) = WindowOf(b)

(* C14 as the code has it on a host whose local time is UTC. *)
C14_OnUtcHost == tz = 0 => C14_WindowNeverEmptied

(* A third run cycle has pruned archives of two 30-day windows. *)
C14_TwoWindowsPruned ==
    /\ Pruned
    /\ calls = 3
    /\ \E b, c \in Listed : WindowOf(b) # WindowOf(c)

====
